---- MODULE Spec2Model ----
(***************************************************************************)
(* Dispatch optimisation engine of ml-svc: the /dispatch handler           *)
(* (routers/quantum.py), the exact and heuristic solvers                   *)
(* (optim/classical_milp.py), the QUBO builder (quantum/qubo.py), the      *)
(* approximate solvers (quantum/anneal_neal.py, quantum/qaoa_qiskit.py)    *)
(* and the import-failure fallbacks (routers/quantum.py, app.py).          *)
(*                                                                         *)
(* Python floats are modelled as exact rationals <<n, d>> in lowest terms  *)
(* with d > 0, so that the default efficiency 0.95 and the divisions by 8  *)
(* and 10 of the source are computed, not approximated.                    *)
(***************************************************************************)
EXTENDS Integers, Sequences, FiniteSets, TLC

(***************************************************************************)
(* Exact rational arithmetic.                                              *)
(***************************************************************************)
Abs(x) == IF x < 0 THEN -x ELSE x

RECURSIVE Gcd(_, _)
Gcd(a, b) == IF b = 0 THEN a ELSE Gcd(b, a % b)

\* n/d in lowest terms, d # 0
R(n, d) ==
    LET g == Gcd(Abs(n), Abs(d))
        s == IF d < 0 THEN -1 ELSE 1
    IN  <<(s * n) \div g, (s * d) \div g>>

I(n) == <<n, 1>>
Zero == I(0)

\* over the least common denominator, which keeps the products small
RAdd(a, b) ==
    LET g == Gcd(a[2], b[2])
    IN  R(a[1] * (b[2] \div g) + b[1] * (a[2] \div g), (a[2] \div g) * b[2])
RNeg(a) == <<-a[1], a[2]>>
RSub(a, b) == RAdd(a, RNeg(b))
RMul(a, b) == R(a[1] * b[1], a[2] * b[2])
\* defined for b # Zero only; callers test for division by zero first
RDiv(a, b) == R(a[1] * b[2], a[2] * b[1])
RLt(a, b) == a[1] * b[2] < b[1] * a[2]
RLe(a, b) == a[1] * b[2] <= b[1] * a[2]
RMin(a, b) == IF RLt(b, a) THEN b ELSE a
RMax(a, b) == IF RLt(a, b) THEN b ELSE a
RMin3(a, b, c) == RMin(RMin(a, b), c)
RAbs(a) == <<Abs(a[1]), a[2]>>

RECURSIVE RSumSeq(_)
RSumSeq(s) == IF s = <<>> THEN Zero ELSE RAdd(s[1], RSumSeq(Tail(s)))

(***************************************************************************)
(* Bounds of the model and the inputs drawn within them.                   *)
(***************************************************************************)
\* longest price series of a request
MaxT == 2

Prices == {I(1), I(3)}
\* (pv, load) of an hour: a deficit of 4 kW or a surplus of 8 kW
PvLoadLevels == {<<I(0), I(4)>>, <<I(8), I(0)>>}

\* a dict is a function from its keys; dict.get(k, default)
Get(c, k, d) == IF k \in DOMAIN c THEN c[k] ELSE d

EmptyDict == [k \in {} |-> Zero]

\* the constraints dicts of the requests: valid ones (efficiencies in (0,1])
\* with keys present or absent, and ones with an efficiency outside (0,1]
ValidConstraints ==
    { EmptyDict,
      [P_ch_max |-> I(2), P_dis_max |-> I(2), export_cap |-> I(2)],
      [P_ch_max |-> I(5), P_dis_max |-> I(2), export_cap |-> I(5),
       soc_min |-> R(1, 10), soc_max |-> I(1), eta_ch |-> R(19, 20), eta_dis |-> R(19, 20)],
      [soc_min |-> R(3, 10), soc_max |-> R(8, 10)],
      [soc_min |-> R(6, 10)],
      [eta_ch |-> R(1, 2), eta_dis |-> R(1, 2)],
      [eta_ch |-> I(1), eta_dis |-> I(1), export_cap |-> I(2)] }

BadEfficiencyConstraints ==
    { [eta_ch |-> I(0)], [eta_dis |-> I(0)], [eta_ch |-> I(2), eta_dis |-> I(2)] }

ConstraintSets == ValidConstraints \cup BadEfficiencyConstraints

Solvers == {"milp", "anneal", "qaoa", "teleport"}
KnownSolvers == {"milp", "anneal", "qaoa"}

HourKinds == { [price |-> p, pv |-> w[1], load |-> w[2]] : p \in Prices, w \in PvLoadLevels }
Hours == UNION { [1..n -> HourKinds] : n \in 0..MaxT }

\* the first n entries of s, padded with pad
Resize(s, n, pad) == [i \in 1..n |-> IF i <= Len(s) THEN s[i] ELSE pad]

Request(h, dpv, dload, c, s) ==
    [prices |-> [i \in 1..Len(h) |-> h[i].price],
     pv |-> Resize([i \in 1..Len(h) |-> h[i].pv], Len(h) + dpv, Zero),
     load |-> Resize([i \in 1..Len(h) |-> h[i].load], Len(h) + dload, Zero),
     constraints |-> c, solver |-> s]

\* pv or load one entry shorter or longer than prices
LengthOffsets == {<<-1, 0>>, <<1, 0>>, <<0, -1>>, <<0, 1>>}

\* a request as the transport layer hands it over: three float lists whose
\* lengths are not checked against each other, a dict and a solver string.
\* The requests drawn are the well-formed ones and those with one defect:
\* a list of another length, or an efficiency outside (0,1].
Requests ==
    { Request(h, 0, 0, c, s) : h \in Hours, c \in ConstraintSets, s \in Solvers }
    \cup { Request(h, d[1], d[2], EmptyDict, s) :
             h \in { x \in Hours : Len(x) >= 1 }, d \in LengthOffsets, s \in Solvers }
    \cup { Request(<<>>, d[1], d[2], EmptyDict, s) :
             d \in { x \in LengthOffsets : x[1] >= 0 /\ x[2] >= 0 }, s \in Solvers }

EfficiencyOk(e) == RLt(Zero, e) /\ RLe(e, I(1))

\* section 3/4.1 of the specification: equal lengths, T >= 1, efficiencies in (0,1]
ValidInput(r) ==
    /\ Len(r.prices) >= 1
    /\ Len(r.pv) = Len(r.prices)
    /\ Len(r.load) = Len(r.prices)
    /\ EfficiencyOk(Get(r.constraints, "eta_ch", R(19, 20)))
    /\ EfficiencyOk(Get(r.constraints, "eta_dis", R(19, 20)))

(***************************************************************************)
(* optim/classical_milp.py: solve_heuristic.  A call returns a dict or     *)
(* raises; a raise is the record [raise |-> <exception class>].            *)
(***************************************************************************)
Raised(x) == "raise" \in DOMAIN x

\* line 113 without the clamp at zero
NetImportUnclamped(net_after_battery) == net_after_battery

\* line 113: import_kw = max(0, net_after_battery)
NetImport(net_after_battery) == RMax(Zero, net_after_battery)

\* lines 96-122 with the charge of line 103 not limited by the headroom
\* (0.9 - soc) * 10
HeuristicHourNoHeadroom(prices, pv, load, constraints, avg_price, t, soc) ==
    LET net_demand == RSub(load[t], pv[t])
        eta_ch == Get(constraints, "eta_ch", R(19, 20))
        eta_dis == Get(constraints, "eta_dis", R(19, 20))
        charging == RLt(prices[t], avg_price) /\ RLt(soc, R(9, 10)) /\ RLt(net_demand, Zero)
        discharging == ~charging /\ RLt(avg_price, prices[t]) /\ RLt(R(2, 10), soc)
                         /\ RLt(Zero, net_demand)
        charge_kw == IF charging
                     THEN RMin(Get(constraints, "P_ch_max", I(5)), RAbs(net_demand))
                     ELSE Zero
        discharge_kw == IF discharging
                        THEN RMin3(Get(constraints, "P_dis_max", I(5)), net_demand,
                                   RMul(RMul(RSub(soc, R(2, 10)), I(10)), eta_dis))
                        ELSE Zero
        net_after_battery == RSub(RAdd(net_demand, charge_kw), discharge_kw)
        import_kw == NetImport(net_after_battery)
        export_kw == RMax(Zero, RNeg(net_after_battery))
    IN  IF discharging /\ RMul(eta_dis, I(10)) = Zero
        THEN [raise |-> "ZeroDivisionError"]
        ELSE [plan |-> [hour |-> t - 1, charge_kw |-> charge_kw,
                        discharge_kw |-> discharge_kw, import_kw |-> import_kw,
                        export_kw |-> RMin(export_kw, Get(constraints, "export_cap", I(5)))],
              soc |-> IF charging
                      THEN RMin(R(9, 10), RAdd(soc, RDiv(RMul(charge_kw, eta_ch), I(10))))
                      ELSE IF discharging
                      THEN RMax(R(2, 10), RSub(soc, RDiv(discharge_kw, RMul(eta_dis, I(10)))))
                      ELSE soc]

\* lines 96-122 with the test net_demand < 0 of line 101 left out
HeuristicHourChargesOnDeficit(prices, pv, load, constraints, avg_price, t, soc) ==
    LET net_demand == RSub(load[t], pv[t])
        eta_ch == Get(constraints, "eta_ch", R(19, 20))
        eta_dis == Get(constraints, "eta_dis", R(19, 20))
        charging == RLt(prices[t], avg_price) /\ RLt(soc, R(9, 10))
        discharging == ~charging /\ RLt(avg_price, prices[t]) /\ RLt(R(2, 10), soc)
                         /\ RLt(Zero, net_demand)
        charge_kw == IF charging
                     THEN RMin3(Get(constraints, "P_ch_max", I(5)), RAbs(net_demand),
                                RMul(RSub(R(9, 10), soc), I(10)))
                     ELSE Zero
        discharge_kw == IF discharging
                        THEN RMin3(Get(constraints, "P_dis_max", I(5)), net_demand,
                                   RMul(RMul(RSub(soc, R(2, 10)), I(10)), eta_dis))
                        ELSE Zero
        net_after_battery == RSub(RAdd(net_demand, charge_kw), discharge_kw)
        import_kw == NetImport(net_after_battery)
        export_kw == RMax(Zero, RNeg(net_after_battery))
    IN  IF discharging /\ RMul(eta_dis, I(10)) = Zero
        THEN [raise |-> "ZeroDivisionError"]
        ELSE [plan |-> [hour |-> t - 1, charge_kw |-> charge_kw,
                        discharge_kw |-> discharge_kw, import_kw |-> import_kw,
                        export_kw |-> RMin(export_kw, Get(constraints, "export_cap", I(5)))],
              soc |-> IF charging
                      THEN RMin(R(9, 10), RAdd(soc, RDiv(RMul(charge_kw, eta_ch), I(10))))
                      ELSE IF discharging
                      THEN RMax(R(2, 10), RSub(soc, RDiv(discharge_kw, RMul(eta_dis, I(10)))))
                      ELSE soc]

\* lines 96-122: one pass of the loop body for hour t (1-based here) with
\* running state of charge soc; the hour plan and the soc after the hour
HeuristicHour(prices, pv, load, constraints, avg_price, t, soc) ==
    LET net_demand == RSub(load[t], pv[t])
        eta_ch == Get(constraints, "eta_ch", R(19, 20))
        eta_dis == Get(constraints, "eta_dis", R(19, 20))
        charging == RLt(prices[t], avg_price) /\ RLt(soc, R(9, 10)) /\ RLt(net_demand, Zero)
        discharging == ~charging /\ RLt(avg_price, prices[t]) /\ RLt(R(2, 10), soc)
                         /\ RLt(Zero, net_demand)
        charge_kw == IF charging
                     THEN RMin3(Get(constraints, "P_ch_max", I(5)), RAbs(net_demand),
                                RMul(RSub(R(9, 10), soc), I(10)))
                     ELSE Zero
        discharge_kw == IF discharging
                        THEN RMin3(Get(constraints, "P_dis_max", I(5)), net_demand,
                                   RMul(RMul(RSub(soc, R(2, 10)), I(10)), eta_dis))
                        ELSE Zero
        net_after_battery == RSub(RAdd(net_demand, charge_kw), discharge_kw)
        import_kw == NetImport(net_after_battery)
        export_kw == RMax(Zero, RNeg(net_after_battery))
    IN  IF discharging /\ RMul(eta_dis, I(10)) = Zero
        THEN [raise |-> "ZeroDivisionError"]
        ELSE [plan |-> [hour |-> t - 1, charge_kw |-> charge_kw,
                        discharge_kw |-> discharge_kw, import_kw |-> import_kw,
                        export_kw |-> RMin(export_kw, Get(constraints, "export_cap", I(5)))],
              soc |-> IF charging
                      THEN RMin(R(9, 10), RAdd(soc, RDiv(RMul(charge_kw, eta_ch), I(10))))
                      ELSE IF discharging
                      THEN RMax(R(2, 10), RSub(soc, RDiv(discharge_kw, RMul(eta_dis, I(10)))))
                      ELSE soc]

\* line 126 (and routers/quantum.py line 49): import cost minus export revenue
RECURSIVE ScheduleCost(_, _, _)
ScheduleCost(prices, schedule, t) ==
    IF t > Len(schedule) THEN Zero
    ELSE RAdd(RSub(RMul(prices[t], schedule[t].import_kw),
                   RMul(RMul(prices[t], R(1, 10)), schedule[t].export_kw)),
              ScheduleCost(prices, schedule, t + 1))

\* lines 95-132: the loop over range(T) and the return
RECURSIVE HeuristicLoop(_, _, _, _, _, _, _, _, _)
HeuristicLoop(prices, pv, load, constraints, avg_price, t, soc, schedule, soc_series) ==
    IF t > Len(prices)
    THEN [schedule |-> schedule, soc_series |-> soc_series,
          cost |-> ScheduleCost(prices, schedule, 1)]
    ELSE IF t > Len(load) \/ t > Len(pv)
    THEN [raise |-> "IndexError"]
    ELSE LET h == HeuristicHour(prices, pv, load, constraints, avg_price, t, soc)
         IN  IF Raised(h) THEN h
             ELSE HeuristicLoop(prices, pv, load, constraints, avg_price, t + 1, h.soc,
                                Append(schedule, h.plan), Append(soc_series, h.soc))

\* lines 86-93 with the loop one hour short
solve_heuristic_one_short(prices, pv, load, constraints) ==
    IF Len(prices) = 0
    THEN [raise |-> "ZeroDivisionError"]
    ELSE HeuristicLoop(SubSeq(prices, 1, Len(prices) - 1), pv, load, constraints,
                       RDiv(RSumSeq(prices), I(Len(prices))), 1, R(1, 2), <<>>, <<>>)

\* lines 86-93
solve_heuristic(prices, pv, load, constraints) ==
    IF Len(prices) = 0
    THEN [raise |-> "ZeroDivisionError"]
    ELSE HeuristicLoop(prices, pv, load, constraints,
                       RDiv(RSumSeq(prices), I(Len(prices))), 1, R(1, 2), <<>>, <<>>)

(***************************************************************************)
(* optim/classical_milp.py: solve_milp.  The LP/MILP engine is external:   *)
(* Solve() is taken to return, with status OPTIMAL, a point of least cost  *)
(* among those that satisfy every bound and constraint the code states     *)
(* (lines 25-51), or any other status, or to raise.  The points are drawn  *)
(* from SolverGrid.                                                        *)
(***************************************************************************)
SolverGrid == {I(0), I(3), I(5)}
\* the values of P_export: those of SolverGrid and 1 kW, what is left of a
\* discharge at the default cap of 5 kW after a load of 4 kW
ExportGrid == SolverGrid \cup {I(1)}

\* lines 25-43 for one hour t: NumVar bounds, power balance, and the two
\* BoolVars x_ch, x_dis with x_ch + x_dis <= 1
ExactHourPlans(pv, load, constraints, t) ==
    { [hour |-> t - 1, charge_kw |-> ch, discharge_kw |-> dis,
       import_kw |-> RSub(RAdd(RAdd(load[t], ch), ex), RAdd(pv[t], dis)),
       export_kw |-> ex] :
        <<ch, dis, ex>> \in
          { w \in SolverGrid \X SolverGrid \X ExportGrid :
              /\ RLe(w[1], Get(constraints, "P_ch_max", I(5)))
              /\ RLe(w[2], Get(constraints, "P_dis_max", I(5)))
              /\ RLe(w[3], Get(constraints, "export_cap", I(5)))
              /\ RLe(Zero, RSub(RAdd(RAdd(load[t], w[1]), w[3]), RAdd(pv[t], w[2])))
              /\ \E x_ch, x_dis \in {0, 1} :
                    /\ x_ch + x_dis <= 1
                    /\ RLe(w[1], RMul(Get(constraints, "P_ch_max", I(5)), I(x_ch)))
                    /\ RLe(w[2], RMul(Get(constraints, "P_dis_max", I(5)), I(x_dis))) } }

\* lines 46-51: SoC[t] from the solution of hour t-1 (t is 1-based here)
ExactSoC(constraints, partial, t) ==
    IF t = 1 THEN R(1, 2)
    ELSE RSub(RAdd(partial.soc_series[t - 1],
                   RDiv(RMul(partial.schedule[t - 1].charge_kw,
                             Get(constraints, "eta_ch", R(19, 20))), I(10))),
              RDiv(partial.schedule[t - 1].discharge_kw,
                   RMul(Get(constraints, "eta_dis", R(19, 20)), I(10))))

\* line 29: the bounds of the variable SoC[t]
ExactSoCInBounds(constraints, s) ==
    /\ RLe(Get(constraints, "soc_min", R(1, 10)), s)
    /\ RLe(s, Get(constraints, "soc_max", I(1)))

\* the feasible points of the model built by lines 25-51, hour by hour
RECURSIVE ExactExtend(_, _, _, _, _, _)
ExactExtend(pv, load, constraints, T, t, partials) ==
    IF t > T THEN partials
    ELSE ExactExtend(pv, load, constraints, T, t + 1,
            { [schedule |-> Append(p.schedule, h),
               soc_series |-> Append(p.soc_series, ExactSoC(constraints, p, t))] :
                <<p, h>> \in { w \in partials \X ExactHourPlans(pv, load, constraints, t) :
                                 ExactSoCInBounds(constraints, ExactSoC(constraints, w[1], t)) } })

\* line 54: the objective
RECURSIVE ExactObjective(_, _, _)
ExactObjective(prices, schedule, t) ==
    IF t > Len(schedule) THEN Zero
    ELSE RAdd(RSub(RMul(prices[t], schedule[t].import_kw),
                   RMul(RMul(prices[t], R(1, 10)), schedule[t].export_kw)),
              ExactObjective(prices, schedule, t + 1))

\* lines 36-51 raise inside the try: pv[t] or load[t] past the end of a
\* shorter list, or the division by eta_dis * 10 = 0 for an hour t >= 1
ExactBuildRaises(prices, pv, load, constraints) ==
    \/ Len(pv) < Len(prices)
    \/ Len(load) < Len(prices)
    \/ Len(prices) >= 2 /\ RMul(Get(constraints, "eta_dis", R(19, 20)), I(10)) = Zero

\* lines 25-51: the points that satisfy every bound and constraint of the
\* model, with the value line 54 gives them
ExactFeasible(prices, pv, load, constraints) ==
    { [schedule |-> p.schedule, soc_series |-> p.soc_series,
       cost |-> ExactObjective(prices, p.schedule, 1)] :
        p \in ExactExtend(pv, load, constraints, Len(prices), 1,
                          {[schedule |-> <<>>, soc_series |-> <<>>]}) }

\* lines 55-60: Minimize and status OPTIMAL: the feasible points of least
\* cost (among those the model draws)
ExactOptimal(prices, pv, load, constraints) ==
    LET F == ExactFeasible(prices, pv, load, constraints)
        costs == { p.cost : p \in F }
        least == CHOOSE c \in costs : \A d \in costs : RLe(c, d)
    IN  { p \in F : p.cost = least }

\* lines 60-78 with soc_series.append after the loop instead of inside it
ExactResultsLastSoC(prices, pv, load, constraints) ==
    { [schedule |-> p.schedule,
       soc_series |-> IF p.soc_series = <<>> THEN <<>> ELSE <<p.soc_series[Len(p.soc_series)]>>,
       cost |-> p.cost] :
        p \in ExactOptimal(prices, pv, load, constraints) }

\* lines 60-78: the results solve_milp can return with status OPTIMAL
ExactResults(prices, pv, load, constraints) ==
    { [schedule |-> p.schedule, soc_series |-> p.soc_series, cost |-> p.cost] :
        p \in ExactOptimal(prices, pv, load, constraints) }

\* lines 82-84 raising again instead of falling back
MilpFallbackReraises(prices, pv, load, constraints) == [raise |-> "RuntimeError"]

\* the fallback called without the caller's constraints
MilpFallbackDefaults(prices, pv, load, constraints) ==
    solve_heuristic(prices, pv, load, EmptyDict)

\* lines 12, 22, 80, 84: what solve_milp does when it has no exact optimum
MilpFallback(prices, pv, load, constraints) ==
    solve_heuristic(prices, pv, load, constraints)

(***************************************************************************)
(* routers/quantum.py lines 16-53: the implementations the router defines  *)
(* for itself when importing the quantum package fails.                    *)
(***************************************************************************)
\* lines 29-47
RECURSIVE RouterFallbackLoop(_, _, _, _, _, _, _)
RouterFallbackLoop(prices, pv, load, avg_price, t, soc, schedule) ==
    IF t > Len(prices)
    THEN [schedule |-> schedule, soc_series |-> [i \in 1..Len(prices) |-> R(1, 2)],
          cost |-> ScheduleCost(prices, schedule, 1)]
    ELSE IF t > Len(load) \/ t > Len(pv)
    THEN [raise |-> "IndexError"]
    ELSE LET discharging == RLt(avg_price, prices[t]) /\ RLt(R(3, 10), soc)
             charging == ~discharging /\ RLt(prices[t], avg_price) /\ RLt(soc, R(8, 10))
             discharge == IF discharging THEN RMin(I(3), RMul(soc, I(8))) ELSE Zero
             charge == IF charging THEN RMin(I(3), RMul(RSub(R(8, 10), soc), I(8))) ELSE Zero
             soc2 == IF discharging THEN RMax(R(3, 10), RSub(soc, RDiv(discharge, I(8))))
                     ELSE IF charging THEN RMin(R(8, 10), RAdd(soc, RDiv(charge, I(8))))
                     ELSE soc
             plan == [hour |-> t - 1, charge_kw |-> charge, discharge_kw |-> discharge,
                      import_kw |-> RMax(Zero, RAdd(RSub(RSub(load[t], pv[t]), discharge), charge)),
                      export_kw |-> RMax(Zero, RSub(RSub(RAdd(pv[t], discharge), load[t]), charge))]
         IN  RouterFallbackLoop(prices, pv, load, avg_price, t + 1, soc2, Append(schedule, plan))

\* lines 23-50
RouterFallbackMilp(prices, pv, load, constraints) ==
    IF Len(prices) = 0
    THEN [raise |-> "ZeroDivisionError"]
    ELSE RouterFallbackLoop(prices, pv, load, RDiv(RSumSeq(prices), I(Len(prices))),
                            1, R(1, 2), <<>>)

Var(name, i) == <<name, i>>

\* line 53
RouterFallbackQubo ==
    (<<Var("x", 0), Var("x", 0)>> :> I(-1)) @@ (<<Var("x", 1), Var("x", 1)>> :> R(-8, 10))
      @@ (<<Var("x", 0), Var("x", 1)>> :> R(1, 2))

\* lines 17-21
RouterFallbackQaoa == [bitstring |-> <<1, 0, 1, 0, 1, 0>>, energy |-> I(-2), solver |-> "mock_qaoa"]
RouterFallbackAnneal == [bitstring |-> <<0, 1, 0, 1, 0, 1>>, energy |-> R(-18, 10), solver |-> "mock_anneal"]

(***************************************************************************)
(* app.py lines 398-441: the endpoint the application defines for itself   *)
(* when importing the router fails.                                        *)
(***************************************************************************)
\* lines 410-428
RECURSIVE AppFallbackLoop(_, _, _, _, _, _, _)
AppFallbackLoop(prices, pv, load, avg_price, t, soc, schedule) ==
    IF t > Len(prices) THEN [schedule |-> schedule]
    ELSE IF t > Len(load) \/ t > Len(pv)
    THEN [raise |-> "IndexError"]
    ELSE LET discharging == RLt(avg_price, prices[t]) /\ RLt(R(3, 10), soc)
             charging == ~discharging /\ RLt(prices[t], avg_price) /\ RLt(soc, R(8, 10))
             discharge == IF discharging
                          THEN RMin(I(3), RMul(RSub(soc, R(3, 10)), I(8))) ELSE Zero
             charge == IF charging THEN RMin(I(3), RMul(RSub(R(8, 10), soc), I(8))) ELSE Zero
             soc2 == IF discharging THEN RMax(R(3, 10), RSub(soc, RDiv(discharge, I(8))))
                     ELSE IF charging THEN RMin(R(8, 10), RAdd(soc, RDiv(charge, I(8))))
                     ELSE soc
             plan == [hour |-> t - 1, charge_kw |-> charge, discharge_kw |-> discharge,
                      import_kw |-> RMax(Zero, RAdd(RSub(RSub(load[t], pv[t]), discharge), charge)),
                      export_kw |-> RMax(Zero, RSub(RSub(RAdd(pv[t], discharge), load[t]), charge))]
         IN  AppFallbackLoop(prices, pv, load, avg_price, t + 1, soc2, Append(schedule, plan))

\* line 430: the import cost alone
RECURSIVE AppFallbackCost(_, _, _)
AppFallbackCost(prices, schedule, t) ==
    IF t > Len(schedule) THEN Zero
    ELSE RAdd(RMul(prices[t], schedule[t].import_kw), AppFallbackCost(prices, schedule, t + 1))

\* lines 403-431
AppFallbackMilp(prices, pv, load) ==
    LET avg_price == IF Len(prices) > 0 THEN RDiv(RSumSeq(prices), I(Len(prices)))
                     ELSE R(3, 10)
        run == AppFallbackLoop(prices, pv, load, avg_price, 1, R(1, 2), <<>>)
    IN  IF Raised(run) THEN run
        ELSE [schedule |-> run.schedule, soc_series |-> [i \in 1..Len(prices) |-> R(1, 2)],
              cost |-> AppFallbackCost(prices, run.schedule, 1), solver |-> "milp_fallback"]

\* line 438: f"{solver}_fallback"
FallbackName(solver) ==
    CASE solver = "anneal" -> "anneal_fallback"
      [] solver = "qaoa" -> "qaoa_fallback"
      [] OTHER -> "teleport_fallback"

(***************************************************************************)
(* quantum/qubo.py: build_qubo.  A QUBO is a function from pairs of        *)
(* variables to coefficients; the variable f"ch_{t}" is <<"ch", t>>.       *)
(***************************************************************************)
\* line 27 multiplying by eta_ch where the source divides
QuboHourTimesEta(prices, constraints, t) ==
    (<<Var("ch", t), Var("ch", t)>> :>
        RMul(RMul(prices[t + 1], Get(constraints, "P_ch_max", I(5))),
             Get(constraints, "eta_ch", R(19, 20))))
    @@ (<<Var("dis", t), Var("dis", t)>> :>
        RMul(RMul(RNeg(prices[t + 1]), Get(constraints, "P_dis_max", I(5))),
             Get(constraints, "eta_dis", R(19, 20))))
    @@ (<<Var("ch", t), Var("dis", t)>> :> I(1000))

\* lines 25-31: the three entries of hour t (0-based, as in the source)
QuboHour(prices, constraints, t) ==
    (<<Var("ch", t), Var("ch", t)>> :>
        RDiv(RMul(prices[t + 1], Get(constraints, "P_ch_max", I(5))),
             Get(constraints, "eta_ch", R(19, 20))))
    @@ (<<Var("dis", t), Var("dis", t)>> :>
        RMul(RMul(RNeg(prices[t + 1]), Get(constraints, "P_dis_max", I(5))),
             Get(constraints, "eta_dis", R(19, 20))))
    @@ (<<Var("ch", t), Var("dis", t)>> :> I(1000))

RECURSIVE QuboLoop(_, _, _)
QuboLoop(prices, constraints, t) ==
    IF t >= Len(prices) THEN EmptyDict
    ELSE QuboHour(prices, constraints, t) @@ QuboLoop(prices, constraints, t + 1)

\* lines 16-33; line 27 divides by eta_ch
build_qubo(prices, pv, load, constraints) ==
    IF Len(prices) >= 1 /\ Get(constraints, "eta_ch", R(19, 20)) = Zero
    THEN [raise |-> "ZeroDivisionError"]
    ELSE [Q |-> QuboLoop(prices, constraints, 0)]

(***************************************************************************)
(* quantum/anneal_neal.py and quantum/qaoa_qiskit.py.  random.choice and   *)
(* the external samplers are choices among the bitstrings they can draw.   *)
(***************************************************************************)
\* lines 42-49 of anneal_neal.py: the variables a QUBO refers to
QuboVars(Q) == { k[1] : k \in DOMAIN Q } \cup { k[2] : k \in DOMAIN Q }

\* sorted() on the variable names (indices stay below 10 in this model)
NameRank(name) == CASE name = "ch" -> 0 [] name = "dis" -> 1 [] OTHER -> 2
VarLe(a, b) == NameRank(a[1]) < NameRank(b[1]) \/ (a[1] = b[1] /\ a[2] <= b[2])

RECURSIVE Sorted(_)
Sorted(S) ==
    IF S = {} THEN <<>>
    ELSE LET m == CHOOSE v \in S : \A w \in S : VarLe(v, w)
         IN  <<m>> \o Sorted(S \ {m})

Bitstrings(n) == [1..n -> {0, 1}]

\* dict(zip(variables, [int(b) for b in bitstring])): zip stops at the shorter
Assignment(variables, bitstring) ==
    LET n == IF Len(variables) < Len(bitstring) THEN Len(variables) ELSE Len(bitstring)
    IN  [v \in { variables[i] : i \in 1..n } |->
            bitstring[CHOOSE i \in 1..n : variables[i] = v]]

RECURSIVE EnergyOver(_, _, _)
EnergyOver(Q, assignment, keys) ==
    IF keys = {} THEN Zero
    ELSE LET k == CHOOSE x \in keys : TRUE
         IN  RAdd(RMul(Q[k], I(Get(assignment, k[1], 0) * Get(assignment, k[2], 0))),
                  EnergyOver(Q, assignment, keys \ {k}))

\* anneal_neal.py lines 71-76 (and qaoa_qiskit.py lines 91-92)
calculate_qubo_energy(Q, assignment) == EnergyOver(Q, assignment, DOMAIN Q)

\* anneal_neal.py line 53 without the guard of line 51
MockAnnealEmptyUnguarded == [raise |-> "IndexError"]

\* anneal_neal.py lines 51-53: the result for a QUBO without variables
MockAnnealEmpty == [bitstring |-> <<1, 0, 1, 0, 1, 0>>, energy |-> R(-5, 2)]

\* anneal_neal.py lines 37-69: a drawn bitstring with its energy (the loop
\* of lines 60-67 keeps one of the 21 bitstrings it drew)
solve_mock_anneal(Q) ==
    LET variables == Sorted(QuboVars(Q))
    IN  IF variables = <<>>
        THEN {MockAnnealEmpty}
        ELSE { [bitstring |-> b,
                energy |-> calculate_qubo_energy(Q, Assignment(variables, b))] :
                  b \in Bitstrings(Len(variables)) }

\* anneal_neal.py lines 15-31: the sample the external sampler reports first
\* and the energy it reports for it
NealResults(Q) ==
    LET variables == Sorted(QuboVars(Q))
    IN  { [bitstring |-> b,
           energy |-> calculate_qubo_energy(Q, Assignment(variables, b))] :
             b \in Bitstrings(Len(variables)) }

\* qaoa_qiskit.py lines 72-94
solve_mock_qaoa(Q) ==
    LET variables == Sorted(QuboVars(Q))
    IN  IF variables = <<>>
        THEN {[bitstring |-> <<1, 0, 1, 0, 1, 0>>, energy |-> I(-2)]}
        ELSE { [bitstring |-> b,
                energy |-> calculate_qubo_energy(Q, Assignment(variables, b))] :
                  b \in Bitstrings(Len(variables)) }

\* qaoa_qiskit.py lines 19-66: at most 8 qubits; the energy sums the
\* entries whose two variables are both assigned
QiskitResults(Q) ==
    LET variables == Sorted(QuboVars(Q))
        n_qubits == IF Len(variables) < 8 THEN Len(variables) ELSE 8
    IN  IF n_qubits = 0
        THEN {[bitstring |-> <<>>, energy |-> Zero]}
        ELSE { [bitstring |-> b,
                energy |->
                  LET assignment == Assignment(SubSeq(variables, 1, n_qubits), b)
                  IN  EnergyOver(Q, assignment,
                        { k \in DOMAIN Q : k[1] \in DOMAIN assignment /\ k[2] \in DOMAIN assignment })] :
                  b \in Bitstrings(n_qubits) }

(***************************************************************************)
(* The service: the module state left by the imports, and one /dispatch    *)
(* request handled to its response.                                        *)
(***************************************************************************)
VARIABLES
    deployment,  \* which /dispatch handler the imports installed
    missing,     \* the optional libraries whose import failed
    pc,          \* "idle" before the request, "done" after the response
    req,         \* the request
    path,        \* the branch of the solver that produced the result
    calls,       \* the solver functions the handler ran
    resp,        \* the response
    approx,      \* the QUBO of the request and the locals of the sampler running on it
    workers,     \* the locals of each of the requests being solved concurrently
    trainer,     \* the locals of build_heuristic_dispatch
    current_models,  \* app.py: the model registry
    baselines,   \* the files baselines/<task>_baseline.json
    run          \* the /train request being handled and the position of its handler

dispatchVars == <<deployment, missing, pc, req, path, calls, resp, approx>>
trainVars == <<trainer, current_models, baselines, run>>
vars == <<dispatchVars, workers, trainVars>>

Libs == {"ortools", "neal", "qiskit"}

\* classical_milp.py lines 1-6, anneal_neal.py lines 1-7, qaoa_qiskit.py lines 1-7
HAS_ORTOOLS == "ortools" \notin missing
HAS_NEAL == "neal" \notin missing
HAS_QISKIT == "qiskit" \notin missing
\* routers/quantum.py lines 6-14
HAS_QUANTUM == deployment = "router"

NoRequest == [prices |-> <<>>, pv |-> <<>>, load |-> <<>>, constraints |-> EmptyDict,
              solver |-> "none"]
NoResponse == [pending |-> TRUE]
\* no QUBO built and no sampler started
NoApprox == [Q |-> EmptyDict, best_bitstring |-> <<>>, best_energy |-> Zero,
             i |-> 0, evaluated |-> 0, lowest |-> Zero]

\* Python's None
None == [none |-> TRUE]

\* no concurrent workers
NoWorkers == <<>>
\* build_heuristic_dispatch not called
NoTrainer == [hour |-> -1]
\* no /train request
NoRun == [at |-> "idle"]

\* app.py lines 112-116: the registry at import time
InitialModels ==
    [k \in {"roi_regressor", "forecast_tft", "dispatch_opt"} |-> None]

\* no baseline file of any task
NoBaselines == [k \in {} |-> None]

\* nothing but /dispatch is in use
OthersIdle ==
    /\ workers = NoWorkers
    /\ trainer = NoTrainer
    /\ current_models = InitialModels
    /\ baselines = NoBaselines
    /\ run = NoRun

Init ==
    /\ OthersIdle
    /\ deployment \in {"router", "router_fallback", "app_fallback"}
    \* each solver reads the flag of its own library only
    /\ missing \in {{}, Libs}
    /\ deployment # "router" => missing = {}
    /\ pc = "idle"
    /\ req = NoRequest
    /\ path = "none"
    /\ calls = {}
    /\ resp = NoResponse
    /\ approx = NoApprox

\* result["solver"] = name
With(d, k, v) == [x \in DOMAIN d \cup {k} |-> IF x = k THEN v ELSE d[x]]

\* routers/quantum.py lines 69-71 and 87-88: the response for what
\* solve_milp returned or raised
MilpResponse(r, result) ==
    IF Raised(result)
    THEN [error |-> result.raise, solver |-> r.solver, success |-> FALSE]
    ELSE With(result, "solver", "milp")

\* routers/quantum.py lines 76-83
ApproxResponse(r, result) == With(result, "solver", r.solver)

\* line 85 replaced by a fallback to the heuristic
UnknownSolverFallsBack(r) ==
    MilpResponse(r, solve_heuristic(r.prices, r.pv, r.load, r.constraints))

\* routers/quantum.py line 85 (the message also names the solver)
UnknownSolverResponse(r) == [error |-> "Unknown solver"]

Finish(r, p, c, response) ==
    /\ pc' = "done"
    /\ req' = r
    /\ path' = p
    /\ calls' = c
    /\ resp' = response
    /\ UNCHANGED <<deployment, missing, approx, workers, trainVars>>

\* dispatch -> solve_milp, classical_milp.py lines 11-12
MilpWithoutOrtools ==
    /\ pc = "idle"
    /\ \E r \in Requests :
        /\ HAS_QUANTUM /\ r.solver = "milp" /\ ~HAS_ORTOOLS
        /\ Finish(r, "no_ortools", {"solve_milp", "solve_heuristic"},
                  MilpResponse(r, MilpFallback(r.prices, r.pv, r.load, r.constraints)))

\* classical_milp.py lines 18-22: CreateSolver gives nothing for SCIP and GLOP
MilpNoSolver ==
    /\ pc = "idle"
    /\ \E r \in Requests :
        /\ HAS_QUANTUM /\ r.solver = "milp" /\ HAS_ORTOOLS
        /\ Finish(r, "no_solver", {"solve_milp", "solve_heuristic"},
                  MilpResponse(r, MilpFallback(r.prices, r.pv, r.load, r.constraints)))

\* classical_milp.py lines 82-84: building the model raises, or the engine does
MilpException ==
    /\ pc = "idle"
    /\ \E r \in Requests :
        /\ HAS_QUANTUM /\ r.solver = "milp" /\ HAS_ORTOOLS
        /\ Finish(r, "exception", {"solve_milp", "solve_heuristic"},
                  MilpResponse(r, MilpFallback(r.prices, r.pv, r.load, r.constraints)))

\* classical_milp.py lines 58-60, 79-80: a status other than OPTIMAL
MilpNotOptimal ==
    /\ pc = "idle"
    /\ \E r \in Requests :
        /\ HAS_QUANTUM /\ r.solver = "milp" /\ HAS_ORTOOLS
        /\ ~ExactBuildRaises(r.prices, r.pv, r.load, r.constraints)
        /\ Finish(r, "not_optimal", {"solve_milp", "solve_heuristic"},
                  MilpResponse(r, MilpFallback(r.prices, r.pv, r.load, r.constraints)))

\* classical_milp.py lines 58-78: status OPTIMAL
MilpOptimal ==
    /\ pc = "idle"
    /\ \E r \in Requests :
        /\ HAS_QUANTUM /\ r.solver = "milp" /\ HAS_ORTOOLS
        /\ ~ExactBuildRaises(r.prices, r.pv, r.load, r.constraints)
        /\ \E result \in ExactResults(r.prices, r.pv, r.load, r.constraints) :
              Finish(r, "optimal", {"solve_milp"}, MilpResponse(r, result))

\* dispatch with the router's own solve_milp (routers/quantum.py lines 23-50)
MilpRouterFallback ==
    /\ pc = "idle"
    /\ \E r \in Requests :
        /\ deployment = "router_fallback" /\ r.solver = "milp"
        /\ Finish(r, "router_fallback", {"solve_milp"},
                  MilpResponse(r, RouterFallbackMilp(r.prices, r.pv, r.load, r.constraints)))

\* routers/quantum.py lines 74, 87-88: build_qubo raises
BuildQuboRaises ==
    /\ pc = "idle"
    /\ \E r \in Requests :
        /\ HAS_QUANTUM /\ r.solver # "milp"
        /\ Raised(build_qubo(r.prices, r.pv, r.load, r.constraints))
        /\ Finish(r, "build_qubo", {"build_qubo"},
                  [error |-> build_qubo(r.prices, r.pv, r.load, r.constraints).raise,
                   solver |-> r.solver, success |-> FALSE])

\* the QUBO line 74 builds, with the router's own build_qubo when the import failed
BuiltQubo(r) ==
    IF HAS_QUANTUM THEN build_qubo(r.prices, r.pv, r.load, r.constraints).Q
    ELSE RouterFallbackQubo

QuboBuilt(r) ==
    /\ deployment \in {"router", "router_fallback"} /\ r.solver # "milp"
    /\ HAS_QUANTUM => ~Raised(build_qubo(r.prices, r.pv, r.load, r.constraints))

\* qaoa_qiskit.py lines 15-66
QaoaQiskit ==
    /\ pc = "idle"
    /\ \E r \in Requests :
        /\ QuboBuilt(r) /\ HAS_QUANTUM /\ r.solver = "qaoa" /\ HAS_QISKIT
        /\ \E result \in QiskitResults(BuiltQubo(r)) :
              Finish(r, "qiskit", {"build_qubo", "solve_qubo_qaoa"}, ApproxResponse(r, result))

\* qaoa_qiskit.py lines 12-13 and 68-70
QaoaMock ==
    /\ pc = "idle"
    /\ \E r \in Requests :
        /\ QuboBuilt(r) /\ HAS_QUANTUM /\ r.solver = "qaoa"
        /\ \E result \in solve_mock_qaoa(BuiltQubo(r)) :
              Finish(r, "mock_qaoa", {"build_qubo", "solve_qubo_qaoa", "solve_mock_qaoa"},
                     ApproxResponse(r, result))

\* anneal_neal.py lines 15-31
AnnealNeal ==
    /\ pc = "idle"
    /\ \E r \in Requests :
        /\ QuboBuilt(r) /\ HAS_QUANTUM /\ r.solver = "anneal" /\ HAS_NEAL
        /\ \E result \in NealResults(BuiltQubo(r)) :
              Finish(r, "neal", {"build_qubo", "solve_qubo_anneal"}, ApproxResponse(r, result))

\* anneal_neal.py lines 12-13 and 33-35
AnnealMock ==
    /\ pc = "idle"
    /\ \E r \in Requests :
        /\ QuboBuilt(r) /\ HAS_QUANTUM /\ r.solver = "anneal"
        /\ \E result \in solve_mock_anneal(BuiltQubo(r)) :
              Finish(r, "mock_anneal", {"build_qubo", "solve_qubo_anneal", "solve_mock_anneal"},
                     ApproxResponse(r, result))

\* dispatch with the router's own samplers (routers/quantum.py lines 17-21)
ApproxRouterFallback ==
    /\ pc = "idle"
    /\ \E r \in Requests :
        /\ QuboBuilt(r) /\ ~HAS_QUANTUM /\ r.solver \in {"qaoa", "anneal"}
        /\ Finish(r, "router_fallback",
                  {"build_qubo", IF r.solver = "qaoa" THEN "solve_qubo_qaoa" ELSE "solve_qubo_anneal"},
                  ApproxResponse(r, IF r.solver = "qaoa" THEN RouterFallbackQaoa
                                    ELSE RouterFallbackAnneal))

\* routers/quantum.py lines 84-85
UnknownSolver ==
    /\ pc = "idle"
    /\ \E r \in Requests :
        /\ QuboBuilt(r) /\ r.solver \notin KnownSolvers
        /\ Finish(r, "unknown", {"build_qubo"}, UnknownSolverResponse(r))

\* app.py lines 406-431 and 440-441
AppFallbackMilpRequest ==
    /\ pc = "idle"
    /\ \E r \in Requests :
        /\ deployment = "app_fallback" /\ r.solver = "milp"
        /\ LET result == AppFallbackMilp(r.prices, r.pv, r.load)
           IN  Finish(r, "app_fallback", {},
                      IF Raised(result) THEN [error |-> result.raise, solver |-> r.solver]
                      ELSE result)

\* app.py lines 433-438: six random bits and an energy in [-3, -1]
AppFallbackQuantumRequest ==
    /\ pc = "idle"
    /\ \E r \in Requests :
        /\ deployment = "app_fallback" /\ r.solver # "milp"
        /\ \E b \in {<<1, 0, 1, 0, 1, 0>>, <<0, 0, 0, 0, 0, 0>>}, e \in {I(-1), I(-3)} :
              Finish(r, "app_fallback", {},
                     [bitstring |-> b, energy |-> e, solver |-> FallbackName(r.solver)])

Next ==
    \/ BuildQuboRaises
    \/ QaoaMock
    \/ QaoaQiskit
    \/ AnnealMock
    \/ AnnealNeal
    \/ ApproxRouterFallback
    \/ UnknownSolver
    \/ MilpWithoutOrtools
    \/ MilpNoSolver
    \/ MilpException
    \/ MilpNotOptimal
    \/ MilpOptimal
    \/ MilpRouterFallback
    \/ AppFallbackMilpRequest
    \/ AppFallbackQuantumRequest

Spec == Init /\ [][Next]_vars

(***************************************************************************)
(* The approximate path of dispatch step by step: build_qubo on the        *)
(* request (routers/quantum.py line 74), then solve_qubo_anneal or         *)
(* solve_qubo_qaoa on the QUBO, with the loop of solve_mock_anneal taken   *)
(* one random draw at a time.  approx.evaluated counts the candidates      *)
(* whose energy the sampler computed and approx.lowest is the lowest of    *)
(* those energies.                                                         *)
(***************************************************************************)
\* anneal_neal.py line 60: range(20)
MockRestarts == 20

\* constraints for build_qubo: defaults, halved efficiencies, a 400 kW
\* battery, and eta_ch = 0
QuboConstraints ==
    { EmptyDict,
      [eta_ch |-> R(1, 2), eta_dis |-> R(1, 2)],
      [P_ch_max |-> I(400), P_dis_max |-> I(400)],
      [eta_ch |-> I(0)] }

\* build_qubo reads prices and constraints only: one price series per
\* length (1, 3, 1, ...), pv and load at one level
ApproxHours(n) ==
    [i \in 1..n |-> [price |-> IF i % 2 = 1 THEN I(1) ELSE I(3), pv |-> Zero, load |-> I(4)]]

ApproxRequests ==
    { Request(ApproxHours(n), 0, 0, c, s) :
        n \in 0..MaxT, c \in QuboConstraints, s \in {"anneal", "qaoa"} }

ApproxInit ==
    /\ OthersIdle
    /\ deployment = "router"
    /\ missing \in {{}, Libs}
    /\ pc = "idle"
    /\ req \in ApproxRequests
    /\ path = "none"
    /\ calls = {}
    /\ resp = NoResponse
    /\ approx = NoApprox

\* routers/quantum.py lines 74 and 87-88
ApproxBuildQubo ==
    /\ pc = "idle"
    /\ LET built == build_qubo(req.prices, req.pv, req.load, req.constraints)
       IN  IF Raised(built)
           THEN /\ pc' = "done"
                /\ path' = "build_qubo"
                /\ resp' = [error |-> built.raise, solver |-> req.solver, success |-> FALSE]
                /\ approx' = approx
           ELSE /\ pc' = "built"
                /\ approx' = [approx EXCEPT !.Q = built.Q]
                /\ UNCHANGED <<path, resp>>
    /\ calls' = {"build_qubo"}
    /\ UNCHANGED <<deployment, missing, req, workers, trainVars>>

\* return result, then result["solver"] = req.solver (routers/quantum.py lines 76-83)
ApproxReturn(p, c, result) ==
    /\ pc' = "done"
    /\ path' = p
    /\ calls' = calls \cup c
    /\ resp' = ApproxResponse(req, result)
    /\ UNCHANGED <<deployment, missing, req, workers, trainVars>>

\* anneal_neal.py lines 15-31: the external sampler answers
ApproxNealSample ==
    /\ pc = "built" /\ req.solver = "anneal" /\ HAS_NEAL
    /\ \E result \in NealResults(approx.Q) :
          /\ ApproxReturn("neal", {"solve_qubo_anneal"}, result)
          /\ approx' = [approx EXCEPT !.evaluated = 1, !.lowest = result.energy]

\* anneal_neal.py lines 12-13 or 33-35, then solve_mock_anneal lines 37-57
MockAnnealFirstDraw ==
    /\ pc = "built" /\ req.solver = "anneal"
    /\ LET variables == Sorted(QuboVars(approx.Q))
       IN  IF variables = <<>>
           THEN /\ ApproxReturn("mock_anneal", {"solve_qubo_anneal", "solve_mock_anneal"},
                                MockAnnealEmpty)
                /\ approx' = approx
           ELSE /\ \E b \in Bitstrings(Len(variables)) :
                      LET energy == calculate_qubo_energy(approx.Q, Assignment(variables, b))
                      IN  approx' = [approx EXCEPT !.best_bitstring = b, !.best_energy = energy,
                                                   !.i = 0, !.evaluated = 1, !.lowest = energy]
                /\ pc' = "mock_anneal"
                /\ calls' = calls \cup {"solve_qubo_anneal", "solve_mock_anneal"}
                /\ UNCHANGED <<deployment, missing, req, path, resp, workers, trainVars>>

\* anneal_neal.py line 65: if energy < best_energy
KeepCandidate(energy, best_energy) == RLt(energy, best_energy)

\* anneal_neal.py lines 60-67: one pass of the loop
MockAnnealIteration ==
    /\ pc = "mock_anneal" /\ approx.i < MockRestarts
    /\ LET variables == Sorted(QuboVars(approx.Q))
       IN  \E b \in Bitstrings(Len(variables)) :
              LET energy == calculate_qubo_energy(approx.Q, Assignment(variables, b))
                  keep == KeepCandidate(energy, approx.best_energy)
              IN  approx' = [approx EXCEPT
                               !.best_bitstring = IF keep THEN b ELSE @,
                               !.best_energy = IF keep THEN energy ELSE @,
                               !.i = @ + 1,
                               !.evaluated = @ + 1,
                               !.lowest = RMin(@, energy)]
    /\ UNCHANGED <<deployment, missing, pc, req, path, calls, resp, workers, trainVars>>

\* anneal_neal.py line 69
MockAnnealReturn ==
    /\ pc = "mock_anneal" /\ approx.i = MockRestarts
    /\ ApproxReturn("mock_anneal", {},
                    [bitstring |-> approx.best_bitstring, energy |-> approx.best_energy])
    /\ approx' = approx

\* qaoa_qiskit.py lines 15-66: one random bitstring
ApproxQiskitSample ==
    /\ pc = "built" /\ req.solver = "qaoa" /\ HAS_QISKIT
    /\ \E result \in QiskitResults(approx.Q) :
          /\ ApproxReturn("qiskit", {"solve_qubo_qaoa"}, result)
          /\ approx' = [approx EXCEPT !.evaluated = IF QuboVars(approx.Q) = {} THEN 0 ELSE 1,
                                      !.lowest = result.energy]

\* qaoa_qiskit.py lines 12-13 or 68-70, then solve_mock_qaoa lines 72-94:
\* one random bitstring
ApproxMockQaoa ==
    /\ pc = "built" /\ req.solver = "qaoa"
    /\ \E result \in solve_mock_qaoa(approx.Q) :
          /\ ApproxReturn("mock_qaoa", {"solve_qubo_qaoa", "solve_mock_qaoa"}, result)
          /\ approx' = [approx EXCEPT !.evaluated = IF QuboVars(approx.Q) = {} THEN 0 ELSE 1,
                                      !.lowest = result.energy]

ApproxNext ==
    \/ ApproxBuildQubo
    \/ ApproxMockQaoa
    \/ ApproxQiskitSample
    \/ MockAnnealFirstDraw
    \/ MockAnnealIteration
    \/ MockAnnealReturn
    \/ ApproxNealSample

ApproxSpec == ApproxInit /\ [][ApproxNext]_vars

(***************************************************************************)
(* solve_qubo_anneal and solve_qubo_qaoa as functions of a QUBO: each      *)
(* takes one of SamplerQubos and returns a result.                         *)
(***************************************************************************)
\* the QUBOs build_qubo gives for 1, 4 and 5 hours (2, 8 and 10 variables)
SamplerQubos ==
    { QuboLoop([i \in 1..n |-> IF i % 2 = 1 THEN I(1) ELSE I(3)], EmptyDict, 0) :
        n \in {1, 4, 5} }

SamplerInit ==
    /\ OthersIdle
    /\ deployment = "router"
    /\ missing \in {{}, Libs}
    /\ pc = "idle"
    /\ req = NoRequest
    /\ path = "none"
    /\ calls = {}
    /\ resp = NoResponse
    /\ approx \in { [NoApprox EXCEPT !.Q = Q] : Q \in SamplerQubos }

SamplerReturn(p, c, result) ==
    /\ pc' = "done"
    /\ path' = p
    /\ calls' = c
    /\ resp' = result
    /\ UNCHANGED <<deployment, missing, req, approx, workers, trainVars>>

\* anneal_neal.py lines 15-31
SampleAnnealNeal ==
    /\ pc = "idle" /\ HAS_NEAL
    /\ \E result \in NealResults(approx.Q) :
          SamplerReturn("neal", {"solve_qubo_anneal"}, result)

\* anneal_neal.py lines 12-13 or 33-35
SampleAnnealMock ==
    /\ pc = "idle"
    /\ \E result \in solve_mock_anneal(approx.Q) :
          SamplerReturn("mock_anneal", {"solve_qubo_anneal", "solve_mock_anneal"}, result)

\* qaoa_qiskit.py lines 15-66
SampleQaoaQiskit ==
    /\ pc = "idle" /\ HAS_QISKIT
    /\ \E result \in QiskitResults(approx.Q) :
          SamplerReturn("qiskit", {"solve_qubo_qaoa"}, result)

\* qaoa_qiskit.py lines 12-13 or 68-70
SampleQaoaMock ==
    /\ pc = "idle"
    /\ \E result \in solve_mock_qaoa(approx.Q) :
          SamplerReturn("mock_qaoa", {"solve_qubo_qaoa", "solve_mock_qaoa"}, result)

SamplerNext ==
    \/ SampleAnnealNeal
    \/ SampleAnnealMock
    \/ SampleQaoaQiskit
    \/ SampleQaoaMock

SamplerSpec == SamplerInit /\ [][SamplerNext]_vars

(***************************************************************************)
(* Two /dispatch requests in flight at once (the handler is a plain def,   *)
(* which the framework runs on a thread pool).  Each worker runs dispatch  *)
(* on its own request; a step is one pass of the loop of solve_heuristic   *)
(* or of build_qubo, or a call's entry or return.  Everything the code     *)
(* assigns while solving is a local of the call's frame or an object       *)
(* reachable from it only: workers[w] holds the frame of worker w.         *)
(* solve_milp takes its heuristic branch and the samplers their mock       *)
(* branch (the external libraries are left out).                           *)
(***************************************************************************)
Workers == {1, 2}

ConcurrentConstraints ==
    { EmptyDict, [eta_ch |-> R(1, 2), eta_dis |-> R(1, 2)], [eta_ch |-> I(0), eta_dis |-> I(0)] }

\* requests of one and of two hours
ConcurrentRequests ==
    { Request(ApproxHours(n), 0, 0, c, s) :
        n \in {1, 2}, c \in ConcurrentConstraints, s \in {"milp", "anneal"} }

\* the frame of dispatch(r) at its entry
Called(r) ==
    [req |-> r, at |-> "called", t |-> 0, avg_price |-> Zero, soc |-> Zero,
     schedule |-> <<>>, soc_series |-> <<>>, Q |-> EmptyDict, resp |-> NoResponse,
     overlapped |-> FALSE]

ConcurrentInit ==
    /\ deployment = "router"
    /\ missing = Libs
    /\ pc = "idle"
    /\ req = NoRequest
    /\ path = "none"
    /\ calls = {}
    /\ resp = NoResponse
    /\ approx = NoApprox
    /\ trainer = NoTrainer
    /\ current_models = InitialModels
    /\ baselines = NoBaselines
    /\ run = NoRun
    /\ workers \in [Workers -> { Called(r) : r \in ConcurrentRequests }]

\* some other worker is between the entry and the return of its call
OthersSolving(w) ==
    \E v \in Workers \ {w} : workers[v].at \in {"heuristic", "qubo"}

\* worker w goes on with frame f
Step(w, f) ==
    /\ workers' = [workers EXCEPT ![w] = [f EXCEPT !.overlapped = @ \/ OthersSolving(w)]]
    /\ UNCHANGED <<dispatchVars, trainVars>>

\* routers/quantum.py lines 87-88
WorkerRaise(f, exception) ==
    [f EXCEPT !.at = "returned",
              !.resp = [error |-> exception, solver |-> f.req.solver, success |-> FALSE]]

\* the running SoC of a module-level variable that the callers share
SharedSoc(w) == workers[1].soc

\* classical_milp.py line 91: soc is a local of the call
WorkerSoc(w) == workers[w].soc

\* routers/quantum.py lines 68-69, classical_milp.py lines 11-12 and 86-93
WorkerSolveHeuristic(w) ==
    LET f == workers[w]
    IN  /\ f.at = "called" /\ f.req.solver = "milp"
        /\ Step(w, IF Len(f.req.prices) = 0 THEN WorkerRaise(f, "ZeroDivisionError")
                   ELSE [f EXCEPT !.at = "heuristic", !.t = 1, !.soc = R(1, 2),
                                  !.avg_price = RDiv(RSumSeq(f.req.prices),
                                                     I(Len(f.req.prices)))])

\* classical_milp.py lines 95-123: one pass of the loop
WorkerHeuristicHour(w) ==
    LET f == workers[w]
        r == f.req
        h == HeuristicHour(r.prices, r.pv, r.load, r.constraints, f.avg_price, f.t,
                           WorkerSoc(w))
    IN  /\ f.at = "heuristic" /\ f.t <= Len(r.prices)
        /\ Step(w, IF f.t > Len(r.load) \/ f.t > Len(r.pv) THEN WorkerRaise(f, "IndexError")
                   ELSE IF Raised(h) THEN WorkerRaise(f, h.raise)
                   ELSE [f EXCEPT !.t = @ + 1, !.soc = h.soc,
                                  !.schedule = Append(@, h.plan),
                                  !.soc_series = Append(@, h.soc)])

\* classical_milp.py lines 125-132 and routers/quantum.py lines 70-71
WorkerHeuristicReturn(w) ==
    LET f == workers[w]
    IN  /\ f.at = "heuristic" /\ f.t > Len(f.req.prices)
        /\ Step(w, [f EXCEPT !.at = "returned",
                             !.resp = [schedule |-> f.schedule, soc_series |-> f.soc_series,
                                       cost |-> ScheduleCost(f.req.prices, f.schedule, 1),
                                       solver |-> "milp"]])

\* routers/quantum.py line 74 and qubo.py lines 16-23
WorkerBuildQubo(w) ==
    LET f == workers[w]
    IN  /\ f.at = "called" /\ f.req.solver # "milp"
        /\ Step(w, [f EXCEPT !.at = "qubo", !.t = 0])

\* qubo.py lines 25-31: one pass of the loop
WorkerQuboHour(w) ==
    LET f == workers[w]
        r == f.req
    IN  /\ f.at = "qubo" /\ f.t < Len(r.prices)
        /\ Step(w, IF Get(r.constraints, "eta_ch", R(19, 20)) = Zero
                   THEN WorkerRaise(f, "ZeroDivisionError")
                   ELSE [f EXCEPT !.t = @ + 1,
                                  !.Q = QuboHour(r.prices, r.constraints, f.t) @@ @])

\* qubo.py line 33, routers/quantum.py lines 80-83, anneal_neal.py lines 12-13
WorkerSample(w) ==
    LET f == workers[w]
    IN  /\ f.at = "qubo" /\ f.t >= Len(f.req.prices)
        /\ \E result \in solve_mock_anneal(f.Q) :
              Step(w, [f EXCEPT !.at = "returned", !.resp = ApproxResponse(f.req, result)])

ConcurrentNext ==
    \E w \in Workers :
        \/ WorkerSolveHeuristic(w)
        \/ WorkerHeuristicHour(w)
        \/ WorkerHeuristicReturn(w)
        \/ WorkerBuildQubo(w)
        \/ WorkerQuboHour(w)
        \/ WorkerSample(w)

ConcurrentSpec == ConcurrentInit /\ [][ConcurrentNext]_vars

(***************************************************************************)
(* trainers/dispatch_opt.py: build_heuristic_dispatch, one pass of its     *)
(* loop over the 24 hours at a time.                                       *)
(***************************************************************************)
\* dataset["battery_capacity"], 13.5 by default (line 153)
BatteryCapacities == {I(0), R(27, 2), I(20), I(40), I(60), I(100)}

\* round(x, 2), ties to the even hundredth
Round2(x) ==
    LET q == (100 * x[1]) \div x[2]
        r == (100 * x[1]) % x[2]
    IN  IF 2 * r > x[2] \/ (2 * r = x[2] /\ q % 2 = 1) THEN R(q + 1, 100) ELSE R(q, 100)

\* lines 152-156
TrainerInit ==
    /\ deployment = "router"
    /\ missing = {}
    /\ pc = "idle"
    /\ req = NoRequest
    /\ path = "none"
    /\ calls = {}
    /\ resp = NoResponse
    /\ approx = NoApprox
    /\ workers = NoWorkers
    /\ current_models = InitialModels
    /\ baselines = NoBaselines
    /\ run = NoRun
    /\ \E battery_kwh \in BatteryCapacities :
          trainer = [battery_kwh |-> battery_kwh, hour |-> 0,
                     soc |-> RMul(battery_kwh, R(2, 10)), schedule |-> <<>>,
                     returned |-> FALSE]

\* lines 170-176, then the next hour
TrainerAppend(charge_kw, discharge_kw, soc) ==
    /\ trainer' = [trainer EXCEPT
                     !.hour = @ + 1,
                     !.soc = soc,
                     !.schedule = Append(@, [hour |-> trainer.hour,
                                             charge_kw |-> Round2(charge_kw),
                                             discharge_kw |-> Round2(discharge_kw),
                                             grid_export_kw |-> Zero,
                                             soc_kwh |-> Round2(soc)])]
    /\ UNCHANGED <<dispatchVars, workers, current_models, baselines, run>>

\* line 163
NightCharging ==
    /\ 1 <= trainer.hour /\ trainer.hour <= 5
    /\ RLt(trainer.soc, RMul(trainer.battery_kwh, R(9, 10)))

\* line 166
EveningDischarge ==
    /\ ~NightCharging
    /\ 17 <= trainer.hour /\ trainer.hour <= 21
    /\ RLt(RMul(trainer.battery_kwh, R(2, 10)), trainer.soc)

\* lines 163-165
TrainerCharge ==
    /\ trainer.hour \in 0..23 /\ NightCharging
    /\ LET charge_kw == RMin(R(35, 10), RSub(RMul(trainer.battery_kwh, R(9, 10)), trainer.soc))
       IN  TrainerAppend(charge_kw, Zero, RAdd(trainer.soc, RMul(charge_kw, R(95, 100))))

\* lines 166-168
TrainerDischarge ==
    /\ trainer.hour \in 0..23 /\ EveningDischarge
    /\ LET discharge_kw == RMin(I(4), RSub(trainer.soc, RMul(trainer.battery_kwh, R(2, 10))))
       IN  TrainerAppend(Zero, discharge_kw, RSub(trainer.soc, RDiv(discharge_kw, R(95, 100))))

\* lines 159-160: neither rule applies
TrainerRest ==
    /\ trainer.hour \in 0..23 /\ ~NightCharging /\ ~EveningDischarge
    /\ TrainerAppend(Zero, Zero, trainer.soc)

\* lines 178-201
TrainerReturn ==
    /\ trainer.hour = 24 /\ ~trainer.returned
    /\ trainer' = [trainer EXCEPT !.returned = TRUE]
    /\ UNCHANGED <<dispatchVars, workers, current_models, baselines, run>>

TrainerNext ==
    \/ TrainerCharge
    \/ TrainerDischarge
    \/ TrainerRest
    \/ TrainerReturn

TrainerSpec == TrainerInit /\ [][TrainerNext]_vars

(***************************************************************************)
(* app.py: the /train handler, one call of its body at a time, over the    *)
(* registry current_models and the baseline files of io/store.py.  The     *)
(* trainers are external (model fitting): a trainer returns one of         *)
(* TrainerRuns or raises.  "ml" in missing: the import of app.py lines     *)
(* 20-27 failed and the handler runs on the stand-ins of lines 31-38.      *)
(***************************************************************************)
HAS_ML == "ml" \notin missing

Tasks == {"roi", "forecast", "dispatch", "bogus"}

\* a run as train_roi / train_forecast return it (roi_regressor.py lines
\* 75-94, forecast_tft.py lines 78-90)
TrainedRun(mae, loss_curve, w_before, w_after) ==
    [metrics |-> [mae |-> mae, loss_curve |-> loss_curve],
     meta |-> [weight_hash_before |-> w_before, weight_hash_after |-> w_after],
     onnx_path |-> "model.onnx"]

\* trainers/dispatch_opt.py lines 189-201: no mae and no loss_curve
DispatchRun ==
    [metrics |-> [method |-> "heuristic", schedule_length |-> 24],
     meta |-> [weight_hash_before |-> "heuristic_init", weight_hash_after |-> "h3"],
     onnx_path |-> "model.onnx"]

\* app.py lines 31-33
MockRun == [metrics |-> [mae |-> R(1, 2)], onnx_path |-> "",
            meta |-> [weight_hash_after |-> "mock"]]

\* what the trainer of a task can return
TrainerRuns(task) ==
    IF ~HAS_ML THEN {MockRun}
    ELSE IF task = "dispatch" THEN {DispatchRun}
    ELSE { TrainedRun(R(1, 2), <<I(1), R(1, 2)>>, "initial", "h1"),
           TrainedRun(R(51, 100), <<I(1), R(1, 2)>>, "h1", "h2"),
           TrainedRun(I(1), <<I(1), R(1, 2)>>, "h1", "h2"),
           TrainedRun(R(1, 2), <<I(1), R(1, 2)>>, "h1", "h1"),
           TrainedRun(R(1, 2), <<I(1), R(99, 100)>>, "h1", "h2"),
           TrainedRun(I(0), <<>>, "NA", "h2") }

\* utils/guards.py lines 2-32: "passed" or the exception raised
assert_not_noop(r) ==
    IF "weight_hash_before" \notin DOMAIN r.meta THEN "KeyError"
    ELSE IF /\ r.meta.weight_hash_before \notin {"NA", "initial"}
            /\ r.meta.weight_hash_before = r.meta.weight_hash_after
    THEN "NO_OP_TRAINING_DETECTED"
    ELSE IF "loss_curve" \notin DOMAIN r.metrics THEN "KeyError"
    ELSE IF /\ Len(r.metrics.loss_curve) >= 2
            /\ RLt(Zero, r.metrics.loss_curve[1])
            /\ RLt(RDiv(RSub(r.metrics.loss_curve[1],
                             r.metrics.loss_curve[Len(r.metrics.loss_curve)]),
                        r.metrics.loss_curve[1]), R(2, 100))
    THEN "NO_OP_TRAINING_DETECTED"
    ELSE IF RLt(R(5, 100), Get(r.metrics, "nan_grad_ratio", Zero))
    THEN "NO_OP_TRAINING_DETECTED"
    ELSE IF "mae" \notin DOMAIN r.metrics THEN "KeyError"
    ELSE IF ~(RLt(Zero, r.metrics.mae) /\ RLt(r.metrics.mae, I(1000000)))
    THEN "NO_OP_TRAINING_DETECTED"
    ELSE IF r.metrics.loss_curve = <<>> THEN "IndexError"
    ELSE "passed"

\* io/store.py lines 66-70: the JSON object save_baseline writes (the
\* timestamp is left out)
baseline_data(model_type, metrics) ==
    [metrics |-> metrics, model_type |-> model_type]

\* io/store.py lines 51-59 (app.py line 37 when the import failed)
load_baseline(model_type) ==
    IF HAS_ML /\ model_type \in DOMAIN baselines THEN baselines[model_type] ELSE None

\* app.py line 142: "passed", "REGRESSION" or the exception raised
RegressionCheck(r, baseline) ==
    IF baseline = None THEN "passed"
    ELSE IF "mae" \notin DOMAIN baseline THEN "KeyError"
    ELSE IF RLt(RMul(baseline.mae, R(102, 100)), r.metrics.mae) THEN "REGRESSION"
    ELSE "passed"

\* app.py lines 164-167
ErrorResponse(exception) ==
    IF exception = "NO_OP_TRAINING_DETECTED"
    THEN [status |-> 422, detail |-> exception]
    ELSE [status |-> 500, detail |-> exception]

TrainInit ==
    /\ deployment = "router"
    /\ missing \in {{}, {"ml"}}
    /\ pc = "idle"
    /\ req = NoRequest
    /\ path = "none"
    /\ calls = {}
    /\ resp = NoResponse
    /\ approx = NoApprox
    /\ workers = NoWorkers
    /\ trainer = NoTrainer
    /\ current_models = InitialModels
    /\ baselines = NoBaselines
    /\ run = NoRun

TrainFrame == UNCHANGED <<dispatchVars, workers, trainer>>

\* the handler raises: lines 164-167
TrainFails(exception) ==
    /\ run' = [run EXCEPT !.at = "done", !.response = ErrorResponse(exception)]
    /\ UNCHANGED <<current_models, baselines>>
    /\ TrainFrame

\* app.py lines 119-125: a request arrives; 401 when the key does not match
TrainRequested ==
    /\ run.at \in {"idle", "done"}
    /\ \E task \in Tasks, key_ok \in BOOLEAN :
          run' = [at |-> IF key_ok THEN "authorized" ELSE "done",
                  task |-> task, key_ok |-> key_ok,
                  guard_passed |-> FALSE, regression_passed |-> FALSE,
                  artifacts_saved |-> FALSE, baseline_saved |-> FALSE,
                  result |-> None,
                  models_before |-> current_models, baselines_before |-> baselines,
                  response |-> IF key_ok THEN NoResponse
                               ELSE [status |-> 401, detail |-> "unauthorized"]]
    /\ UNCHANGED <<current_models, baselines>>
    /\ TrainFrame

\* app.py lines 128-133: the trainer of the task returns
TrainerReturns ==
    /\ run.at = "authorized" /\ (HAS_ML => run.task \in {"roi", "forecast", "dispatch"})
    /\ \E r \in TrainerRuns(run.task) : run' = [run EXCEPT !.at = "trained", !.result = r]
    /\ UNCHANGED <<current_models, baselines>>
    /\ TrainFrame

\* app.py lines 128-133: the trainer raises
TrainerRaises ==
    /\ run.at = "authorized" /\ HAS_ML /\ run.task \in {"roi", "forecast", "dispatch"}
    /\ TrainFails("TrainerError")

\* app.py lines 134-135 (the stand-in TrainRequest of lines 41-45 has the
\* task "mock", which is none of the three)
TrainInvalidTask ==
    /\ run.at = "authorized" /\ (HAS_ML => run.task \notin {"roi", "forecast", "dispatch"})
    /\ TrainFails("Invalid task type")

\* the position after assert_not_noop with the regression check left out
AfterGuardUnchecked == "checked"

\* app.py lines 138-141: after the guard comes the regression check
AfterGuard == "guarded"

\* app.py line 138 (line 34 when the import failed)
TrainGuard ==
    /\ run.at = "trained"
    /\ LET outcome == IF HAS_ML THEN assert_not_noop(run.result) ELSE "passed"
       IN  IF outcome = "passed"
           THEN /\ run' = [run EXCEPT !.at = AfterGuard, !.guard_passed = TRUE]
                /\ UNCHANGED <<current_models, baselines>>
                /\ TrainFrame
           ELSE TrainFails(outcome)

\* app.py lines 141-143
TrainRegression ==
    /\ run.at = "guarded"
    /\ LET outcome == RegressionCheck(run.result, load_baseline(run.task))
       IN  IF outcome = "passed"
           THEN /\ run' = [run EXCEPT !.at = "checked", !.regression_passed = TRUE]
                /\ UNCHANGED <<current_models, baselines>>
                /\ TrainFrame
           ELSE TrainFails(outcome)

\* app.py line 146, io/store.py lines 7-49 (the artifact files are not kept)
TrainSaveArtifacts ==
    /\ run.at = "checked"
    /\ run' = [run EXCEPT !.at = "saved", !.artifacts_saved = TRUE]
    /\ UNCHANGED <<current_models, baselines>>
    /\ TrainFrame

\* io/store.py lines 14-31 or 63-72: a directory or a file cannot be
\* created (the baseline file is not opened yet)
TrainStoreRaises ==
    /\ run.at \in {"checked", "saved"} /\ HAS_ML
    /\ TrainFails("OSError")

\* app.py line 147, io/store.py lines 61-75 (line 38 when the import failed)
TrainSaveBaseline ==
    /\ run.at = "saved"
    /\ run' = [run EXCEPT !.at = "baselined", !.baseline_saved = TRUE]
    /\ baselines' = IF HAS_ML
                    THEN With(baselines, run.task, baseline_data(run.task, run.result.metrics))
                    ELSE baselines
    /\ UNCHANGED current_models
    /\ TrainFrame

\* app.py lines 150-162
TrainRegister ==
    /\ run.at = "baselined"
    /\ current_models' = With(current_models, run.task,
                              [onnx_path |-> run.result.onnx_path,
                               version |-> run.result.meta.weight_hash_after,
                               metrics |-> run.result.metrics])
    /\ run' = [run EXCEPT !.at = "done",
                          !.response = [status |-> 200, success |-> TRUE, task |-> run.task,
                                        version |-> run.result.meta.weight_hash_after,
                                        metrics |-> run.result.metrics]]
    /\ UNCHANGED baselines
    /\ TrainFrame

TrainNext ==
    \/ TrainRequested
    \/ TrainerReturns
    \/ TrainerRaises
    \/ TrainInvalidTask
    \/ TrainGuard
    \/ TrainRegression
    \/ TrainSaveArtifacts
    \/ TrainStoreRaises
    \/ TrainSaveBaseline
    \/ TrainRegister

TrainSpec == TrainInit /\ [][TrainNext]_vars

(***************************************************************************)
(* Properties.                                                             *)
(***************************************************************************)
Done == pc = "done"
\* the handler `dispatch` of routers/quantum.py served the request
ByDispatch == deployment \in {"router", "router_fallback"}
IsError == "error" \in DOMAIN resp
HasSchedule == "schedule" \in DOMAIN resp
HasBitstring == "bitstring" \in DOMAIN resp
HasEnergy == "energy" \in DOMAIN resp
\* the response the code gives an unknown solver identifier
IsInvalidBackend == IsError /\ resp.error = "Unknown solver"
\* an error response for a defect of the input (the code has no error of
\* its own for it: it can only be an exception the input provoked)
IsInvalidInput == IsError /\ resp.error \in {"ZeroDivisionError", "IndexError"}
\* the branches of solve_milp that end in solve_heuristic
HeuristicPaths == {"no_ortools", "no_solver", "exception", "not_optimal"}
SolverFunctions ==
    {"solve_milp", "solve_heuristic", "solve_qubo_qaoa", "solve_qubo_anneal",
     "solve_mock_qaoa", "solve_mock_anneal"}
Positive(x) == RLt(Zero, x)

C2_SocWithinCallerBounds ==
    (/\ Done /\ ValidInput(req) /\ HasSchedule /\ path \in HeuristicPaths \cup {"optimal"}
     /\ RLe(Get(req.constraints, "soc_min", R(1, 2)), R(1, 2))
     /\ RLe(R(1, 2), Get(req.constraints, "soc_max", R(1, 2)))) =>
        \A i \in 1..Len(resp.soc_series) :
            /\ "soc_min" \in DOMAIN req.constraints =>
                  RLe(req.constraints.soc_min, resp.soc_series[i])
            /\ "soc_max" \in DOMAIN req.constraints =>
                  RLe(resp.soc_series[i], req.constraints.soc_max)

\* C3: in every hour of a schedule returned by the heuristic or the exact
\* path, import_kw + pv + discharge_kw = load + charge_kw + export_kw, also
\* when the PV surplus exceeds the export cap.
C3_PowerBalance ==
    (Done /\ ValidInput(req) /\ HasSchedule /\ path \in HeuristicPaths \cup {"optimal"}) =>
        \A t \in 1..Len(resp.schedule) :
            RAdd(RAdd(resp.schedule[t].import_kw, req.pv[t]), resp.schedule[t].discharge_kw)
              = RAdd(RAdd(req.load[t], resp.schedule[t].charge_kw), resp.schedule[t].export_kw)

\* C4 as stated: for every valid request and every known solver, dispatch
\* returns a schedule of exactly T hour plans.
C4_AlwaysSchedule ==
    (Done /\ ByDispatch /\ ValidInput(req) /\ req.solver \in KnownSolvers) =>
        HasSchedule /\ Len(resp.schedule) = Len(req.prices)

\* C4 as amended: for every valid request, dispatch returns a schedule of
\* exactly T hour plans when the solver is milp, and a bitstring with its
\* energy and no schedule when the solver is anneal or qaoa.
C4_ScheduleOrBitstring ==
    (Done /\ ByDispatch /\ ValidInput(req) /\ req.solver \in KnownSolvers) =>
        /\ ~IsError
        /\ req.solver = "milp" =>
              /\ HasSchedule /\ ~HasBitstring
              /\ Len(resp.schedule) = Len(req.prices)
              /\ \A t \in 1..Len(resp.schedule) : resp.schedule[t].hour = t - 1
        /\ req.solver # "milp" => HasBitstring /\ HasEnergy /\ ~HasSchedule

\* a milp request served by the heuristic with a schedule of MaxT hours
C4_Witness ==
    /\ Done /\ ByDispatch /\ ValidInput(req) /\ req.solver = "milp"
    /\ path = "not_optimal" /\ HasSchedule /\ Len(resp.schedule) = MaxT

\* C5: when the exact solver is unavailable or fails and the request names
\* solver "milp", the solver field of the response names the heuristic
\* fallback, not the exact backend that was asked for.
C5_ReportsHeuristic ==
    (Done /\ ByDispatch /\ req.solver = "milp" /\ path \in HeuristicPaths /\ ~IsError) =>
        resp.solver # "milp"

C7_ErrorNamesSolver ==
    (Done /\ ByDispatch /\ IsError) =>
        "solver" \in DOMAIN resp /\ resp.solver = req.solver

\* C8: a request with an empty prices array is rejected with InvalidInput,
\* for every solver identifier and every availability of the libraries; it
\* returns no schedule, bitstring or energy.
C8_EmptyPricesRejected ==
    (Done /\ ByDispatch /\ Len(req.prices) = 0) =>
        IsInvalidInput /\ ~HasSchedule /\ ~HasBitstring /\ ~HasEnergy

\* C9: a request (of T >= 1 hours, for a known solver) whose pv or load
\* differs in length from prices (shorter or longer), or whose eta_ch or
\* eta_dis lies outside (0,1], fails with InvalidInput and produces no
\* schedule.
C9_MalformedRejected ==
    (/\ Done /\ ByDispatch /\ req.solver \in KnownSolvers /\ Len(req.prices) >= 1
     /\ \/ Len(req.pv) # Len(req.prices)
        \/ Len(req.load) # Len(req.prices)
        \/ ~EfficiencyOk(Get(req.constraints, "eta_ch", R(19, 20)))
        \/ ~EfficiencyOk(Get(req.constraints, "eta_dis", R(19, 20)))) =>
        IsInvalidInput /\ ~HasSchedule

\* C10: for a valid input, whenever solve_milp has no exact optimum (the
\* library is missing, no solver is created, the status is not OPTIMAL, or
\* building or solving raises) it does not raise and returns exactly what
\* solve_heuristic returns for the same prices, pv, load and constraints.
C10_FallbackIsHeuristic ==
    (Done /\ deployment = "router" /\ req.solver = "milp" /\ ValidInput(req)
       /\ path \in HeuristicPaths) =>
        /\ ~Raised(solve_heuristic(req.prices, req.pv, req.load, req.constraints))
        /\ ~IsError
        /\ [k \in DOMAIN resp \ {"solver"} |-> resp[k]]
             = solve_heuristic(req.prices, req.pv, req.load, req.constraints)

\* the except branch taken on a request whose caps the heuristic must read
C10_Witness ==
    /\ Done /\ deployment = "router" /\ req.solver = "milp" /\ ValidInput(req)
    /\ path = "exception" /\ "P_ch_max" \in DOMAIN req.constraints
    /\ HasSchedule /\ \E t \in 1..Len(resp.schedule) : Positive(resp.schedule[t].charge_kw)

(***************************************************************************)
(* Properties of the approximate path (ApproxSpec).                        *)
(***************************************************************************)
\* the QUBO of line 74 has been built
QuboIsBuilt == pc \in {"built", "mock_anneal"} \/ (pc = "done" /\ ~IsError)
\* a sampler has returned
SamplerReturned == pc = "done" /\ calls \cap {"solve_qubo_anneal", "solve_qubo_qaoa"} # {}
\* the energy formula of section 4.5 on the returned bitstring: the sum of
\* coeff * a(i) * a(j) over all entries of Q, a mapping the bitstring onto
\* the sorted variables
FormulaEnergy(Q, bitstring) ==
    calculate_qubo_energy(Q, Assignment(Sorted(QuboVars(Q)), bitstring))
IsNumber(x) == x \in Int \X Int /\ x[2] > 0

\* C11: for every QUBO (the empty one included), both strategies and every
\* path (external sampler or fallback), the reported energy equals the sum
\* of coeff * a(i) * a(j) over all entries of the QUBO, where a maps the
\* returned bitstring onto the sorted variables.
C11_EnergyIsQuboEnergy ==
    (SamplerReturned /\ HasBitstring /\ HasEnergy) =>
        resp.energy = FormulaEnergy(approx.Q, resp.bitstring)

\* C12: solve_qubo_anneal and solve_qubo_qaoa never raise: for every QUBO,
\* also one without variables, and whether the external sampler is
\* missing, answers or fails, the result has a bitstring (a string of 0s
\* and 1s) and a numeric energy.
C12_SamplersNeverRaise ==
    SamplerReturned =>
        /\ ~IsError /\ ~Raised(resp)
        /\ HasBitstring /\ resp.bitstring \in Seq({0, 1})
        /\ HasEnergy /\ IsNumber(resp.energy)

\* the external annealer is installed and fails on a QUBO without variables
C12_Witness ==
    /\ SamplerReturned /\ path = "mock_anneal" /\ missing = {}
    /\ QuboVars(approx.Q) = {} /\ HasBitstring

\* C13: when the external sampler is unavailable, both strategies evaluate
\* at least 20 randomly drawn candidates (of a QUBO that has variables) and
\* return the one of lowest energy among those evaluated.
C13_MockKeepsBestOfTwenty ==
    (/\ SamplerReturned /\ missing = Libs /\ path \in {"mock_anneal", "mock_qaoa"}
     /\ QuboVars(approx.Q) # {}) =>
        /\ approx.evaluated >= 20
        /\ resp.energy = approx.lowest

\* the cross terms of Q that involve a variable of hour t (0-based)
CrossTerms(Q, t) == { k \in DOMAIN Q : k[1] # k[2] /\ (k[1][2] = t \/ k[2][2] = t) }

\* C14: for every valid input with T >= 1 the QUBO has exactly one
\* charge/discharge cross term per hour, and its coefficient is strictly
\* greater than the magnitude of both diagonal terms of that hour, for
\* every price and power cap.
C14_PenaltyDominates ==
    (QuboIsBuilt /\ ValidInput(req)) =>
        \A t \in 0..(Len(req.prices) - 1) :
            /\ CrossTerms(approx.Q, t) = {<<Var("ch", t), Var("dis", t)>>}
            /\ RLt(RAbs(approx.Q[<<Var("ch", t), Var("ch", t)>>]),
                   approx.Q[<<Var("ch", t), Var("dis", t)>>])
            /\ RLt(RAbs(approx.Q[<<Var("dis", t), Var("dis", t)>>]),
                   approx.Q[<<Var("ch", t), Var("dis", t)>>])

\* the entries section 4.4 of the specification gives hour t
QuboAsSpecified(r, Q) ==
    /\ DOMAIN Q = UNION { { <<Var("ch", t), Var("ch", t)>>, <<Var("dis", t), Var("dis", t)>>,
                            <<Var("ch", t), Var("dis", t)>> } : t \in 0..(Len(r.prices) - 1) }
    /\ \A t \in 0..(Len(r.prices) - 1) :
          /\ Q[<<Var("ch", t), Var("ch", t)>>]
               = RMul(r.prices[t + 1], RDiv(Get(r.constraints, "P_ch_max", I(5)),
                                            Get(r.constraints, "eta_ch", R(19, 20))))
          /\ Q[<<Var("dis", t), Var("dis", t)>>]
               = RNeg(RMul(r.prices[t + 1], RMul(Get(r.constraints, "P_dis_max", I(5)),
                                                 Get(r.constraints, "eta_dis", R(19, 20)))))

\* C15: when build_qubo returns, for every hour t the diagonal coefficient
\* of the charge indicator is price[t] * P_ch_max / eta_ch, that of the
\* discharge indicator is -price[t] * P_dis_max * eta_dis, the only other
\* entry of the hour is its cross term (no coupling between hours), and
\* the request (prices, pv, load, constraints) is as it was.
C15_QuboAsSpecified ==
    [][(pc = "idle" /\ pc' = "built") => (req' = req /\ QuboAsSpecified(req, approx'.Q))]_vars

\* a QUBO of MaxT hours built with efficiencies other than the defaults
C15_Witness ==
    /\ pc = "built" /\ Len(req.prices) = MaxT
    /\ "eta_ch" \in DOMAIN req.constraints /\ req.constraints.eta_ch = R(1, 2)
    /\ Cardinality(DOMAIN approx.Q) = 3 * MaxT

(***************************************************************************)
(* Properties of solve_milp and solve_heuristic as dispatch runs them      *)
(* (Spec).                                                                 *)
(***************************************************************************)
\* solve_milp of optim/classical_milp.py returned on a valid input
SolveMilpReturned ==
    /\ Done /\ deployment = "router" /\ req.solver = "milp" /\ ValidInput(req)
    /\ path \in HeuristicPaths \cup {"optimal"}

\* C16: for any valid input of length T, solve_milp (exact path and every
\* fallback path) returns schedule, soc_series and cost; the schedule has
\* exactly T entries with hour 0..T-1 in order, each with hour, charge_kw
\* and discharge_kw, and soc_series has exactly T entries.
C16_ResultShape ==
    SolveMilpReturned =>
        /\ {"schedule", "soc_series", "cost"} \subseteq DOMAIN resp
        /\ Len(resp.schedule) = Len(req.prices)
        /\ \A t \in 1..Len(resp.schedule) :
              /\ {"hour", "charge_kw", "discharge_kw"} \subseteq DOMAIN resp.schedule[t]
              /\ resp.schedule[t].hour = t - 1
        /\ Len(resp.soc_series) = Len(req.prices)

\* an exact optimum over MaxT hours that charges the battery
C16_Witness ==
    /\ SolveMilpReturned /\ path = "optimal" /\ Len(req.prices) = MaxT
    /\ "soc_series" \in DOMAIN resp /\ Len(resp.soc_series) = MaxT
    /\ Positive(resp.schedule[1].charge_kw)

\* C17: the SoC series returned with a schedule of T hours has T+1 entries
\* and its first entry is the initial state of charge 0.5, on the exact and
\* on the heuristic path.
C17_SocSeriesFromInitial ==
    (SolveMilpReturned /\ HasSchedule) =>
        /\ Len(resp.soc_series) = Len(resp.schedule) + 1
        /\ resp.soc_series[1] = R(1, 2)

\* C18: the only error responses of dispatch are InvalidInput (for an
\* invalid request) and InvalidBackend; a valid request with a known
\* solver ends in a result, never in an error response, whichever solving
\* or sampling capability is missing, infeasible or raises.
C18_OnlyInputAndBackendErrors ==
    (Done /\ ByDispatch) =>
        /\ IsError => (IsInvalidBackend \/ (~ValidInput(req) /\ IsInvalidInput))
        /\ (ValidInput(req) /\ req.solver \in KnownSolvers) =>
              (~IsError /\ (HasSchedule \/ HasBitstring))

\* the external sampler is installed, fails, and the request still ends in a result
C18_Witness ==
    /\ Done /\ ByDispatch /\ ValidInput(req) /\ req.solver = "qaoa"
    /\ path = "mock_qaoa" /\ missing = {} /\ HasBitstring /\ ~IsError

\* section 4.2 for hour t (1-based) entered with state of charge soc: the
\* charge and the discharge of the hour, with the caller's soc_min and
\* soc_max (the heuristic's own 0.2 and 0.9 where the caller gives none)
RuleCharges(r, t, soc) ==
    /\ RLt(r.prices[t], RDiv(RSumSeq(r.prices), I(Len(r.prices))))
    /\ RLt(soc, Get(r.constraints, "soc_max", R(9, 10)))
    /\ RLt(RSub(r.load[t], r.pv[t]), Zero)
RuleDischarges(r, t, soc) ==
    /\ ~RuleCharges(r, t, soc)
    /\ RLt(RDiv(RSumSeq(r.prices), I(Len(r.prices))), r.prices[t])
    /\ RLt(Get(r.constraints, "soc_min", R(2, 10)), soc)
    /\ RLt(Zero, RSub(r.load[t], r.pv[t]))
RuleCharge(r, t, soc) ==
    IF RuleCharges(r, t, soc)
    THEN RMin3(Get(r.constraints, "P_ch_max", I(5)), RAbs(RSub(r.load[t], r.pv[t])),
               RMul(RSub(Get(r.constraints, "soc_max", R(9, 10)), soc), I(10)))
    ELSE Zero
RuleDischarge(r, t, soc) ==
    IF RuleDischarges(r, t, soc)
    THEN RMin3(Get(r.constraints, "P_dis_max", I(5)), RSub(r.load[t], r.pv[t]),
               RMul(RMul(RSub(soc, Get(r.constraints, "soc_min", R(2, 10))), I(10)),
                    Get(r.constraints, "eta_dis", R(19, 20))))
    ELSE Zero

\* C19: in solve_heuristic, for every hour t: the battery charges iff
\* price[t] < average price, SoC < soc_max and net demand < 0, by exactly
\* min(charge cap, |net demand|, headroom-implied power); otherwise it
\* discharges iff price[t] > average, SoC > soc_min and net demand > 0, by
\* exactly min(discharge cap, net demand, reserve-implied power); in every
\* other case both are 0 and the SoC is unchanged (stated here for the
\* requests whose band contains the initial state of charge 0.5).
C19_HeuristicRule ==
    (/\ SolveMilpReturned /\ path \in HeuristicPaths /\ HasSchedule
     /\ RLe(Get(req.constraints, "soc_min", R(1, 2)), R(1, 2))
     /\ RLe(R(1, 2), Get(req.constraints, "soc_max", R(1, 2)))) =>
        \A t \in 1..Len(resp.schedule) :
            LET soc == IF t = 1 THEN R(1, 2) ELSE resp.soc_series[t - 1]
            IN  /\ resp.schedule[t].charge_kw = RuleCharge(req, t, soc)
                /\ resp.schedule[t].discharge_kw = RuleDischarge(req, t, soc)
                /\ (~RuleCharges(req, t, soc) /\ ~RuleDischarges(req, t, soc)) =>
                      resp.soc_series[t] = soc

\* the state of charge after the last hour of an exact result, by the
\* recursion of classical_milp.py line 51
SocAfterLastHour(r, result) ==
    LET T == Len(result.schedule)
    IN  RSub(RAdd(result.soc_series[T],
                  RDiv(RMul(result.schedule[T].charge_kw,
                            Get(r.constraints, "eta_ch", R(19, 20))), I(10))),
             RDiv(result.schedule[T].discharge_kw,
                  RMul(Get(r.constraints, "eta_dis", R(19, 20)), I(10))))

\* C20: on the exact path the state of charge is tracked at all T+1 hour
\* boundaries: the charge and discharge of the last hour T-1 are bound by
\* the SoC recursion too, and the state of charge after the last hour lies
\* within [soc_min, soc_max].
C20_LastHourBounded ==
    (SolveMilpReturned /\ path = "optimal" /\ HasSchedule) =>
        /\ RLe(Get(req.constraints, "soc_min", R(1, 10)), SocAfterLastHour(req, resp))
        /\ RLe(SocAfterLastHour(req, resp), Get(req.constraints, "soc_max", I(1)))

\* section 4.1 of the specification: the cost of a schedule is the sum over
\* its hours of price * import_kw - 0.1 * price * export_kw
StatedCost(prices, schedule) ==
    RSumSeq([t \in 1..Len(schedule) |->
                RSub(RMul(prices[t], schedule[t].import_kw),
                     RMul(RMul(R(1, 10), prices[t]), schedule[t].export_kw))])

HasCost == "cost" \in DOMAIN resp

\* C21: on every path that returns a schedule and a cost (exact, heuristic,
\* the import-failure fallbacks of the router and of the application) the
\* reported cost equals the sum over the hours of the returned schedule of
\* price[t] * import_kw[t] - 0.1 * price[t] * export_kw[t].
C21_CostOfReturnedSchedule ==
    (Done /\ HasSchedule /\ HasCost) => resp.cost = StatedCost(req.prices, resp.schedule)

\* C22: in every hour of a returned schedule 0 <= charge_kw <= P_ch_max,
\* 0 <= discharge_kw <= P_dis_max and export_kw <= export_cap (caps 5 when
\* absent), on the exact path, on the heuristic path and on the
\* import-failure fallback of the router.
C22_PowerWithinCaps ==
    (Done /\ ByDispatch /\ HasSchedule) =>
        \A t \in 1..Len(resp.schedule) :
            /\ RLe(Zero, resp.schedule[t].charge_kw)
            /\ RLe(resp.schedule[t].charge_kw, Get(req.constraints, "P_ch_max", I(5)))
            /\ RLe(Zero, resp.schedule[t].discharge_kw)
            /\ RLe(resp.schedule[t].discharge_kw, Get(req.constraints, "P_dis_max", I(5)))
            /\ RLe(resp.schedule[t].export_kw, Get(req.constraints, "export_cap", I(5)))

\* C23: for every non-empty QUBO the bitstring solve_qubo_anneal and
\* solve_qubo_qaoa return, on the external-sampler path and on the fallback
\* path, has exactly one bit for each distinct variable of the QUBO (in
\* sorted variable order), however many variables there are.
C23_OneBitPerVariable ==
    (Done /\ HasBitstring /\ path \in {"neal", "mock_anneal", "qiskit", "mock_qaoa"}
          /\ QuboVars(approx.Q) # {}) =>
        /\ Len(resp.bitstring) = Cardinality(QuboVars(approx.Q))
        /\ DOMAIN Assignment(Sorted(QuboVars(approx.Q)), resp.bitstring) = QuboVars(approx.Q)

\* C24: when an approximate backend (anneal or qaoa) is requested and
\* building the QUBO fails, dispatch falls back to the heuristic: the
\* response is not an error, it carries the schedule solve_heuristic gives
\* for the request, and its solver field reports the heuristic path.
C24_QuboFailureFallsBack ==
    (Done /\ ByDispatch /\ req.solver \in {"anneal", "qaoa"} /\ path = "build_qubo") =>
        /\ ~IsError
        /\ HasSchedule
        /\ LET h == solve_heuristic(req.prices, req.pv, req.load, req.constraints)
           IN  ~Raised(h) => resp.schedule = h.schedule
        /\ resp.solver \notin {"anneal", "qaoa"}

\* the responses dispatch can give request r when it is the only request
AloneResponses(r) ==
    IF r.solver = "milp"
    THEN {MilpResponse(r, solve_heuristic(r.prices, r.pv, r.load, r.constraints))}
    ELSE LET built == build_qubo(r.prices, r.pv, r.load, r.constraints)
         IN  IF Raised(built)
             THEN {[error |-> built.raise, solver |-> r.solver, success |-> FALSE]}
             ELSE { ApproxResponse(r, x) : x \in solve_mock_anneal(built.Q) }

\* C25: two dispatch requests solved concurrently, under any interleaving
\* of their steps, each return a result they can return when solved alone:
\* nothing written while solving one request (running SoC, schedule, cost,
\* QUBO) is read or written by the other.
C25_ConcurrentAsAlone ==
    \A w \in Workers :
        workers[w].at = "returned" => workers[w].resp \in AloneResponses(workers[w].req)

\* both requests returned, each having taken steps while the other was
\* being solved; one discharged the battery, the other built a QUBO
C25_Witness ==
    /\ \A w \in Workers : workers[w].at = "returned" /\ workers[w].overlapped
    /\ "schedule" \in DOMAIN workers[1].resp
    /\ \E t \in 1..Len(workers[1].resp.schedule) :
          Positive(workers[1].resp.schedule[t].discharge_kw)
    /\ "bitstring" \in DOMAIN workers[2].resp
    /\ workers[1].req.constraints # workers[2].req.constraints

\* the SoC before hour t (1-based) of a returned heuristic result
SocBefore(t) == IF t = 1 THEN R(1, 2) ELSE resp.soc_series[t - 1]

\* C26: in solve_heuristic, for efficiencies in (0,1] and positive power
\* caps, the min/max clamps on the running SoC never bind: after every hour
\* the SoC is within [0.2, 0.9] and equals exactly the previous SoC
\* + charge_kw * eta_ch / 10 - discharge_kw / (eta_dis * 10).
C26_ClampsNeverBind ==
    (/\ SolveMilpReturned /\ path \in HeuristicPaths /\ HasSchedule
     /\ Positive(Get(req.constraints, "P_ch_max", I(5)))
     /\ Positive(Get(req.constraints, "P_dis_max", I(5)))) =>
        \A t \in 1..Len(resp.schedule) :
            /\ RLe(R(2, 10), resp.soc_series[t])
            /\ RLe(resp.soc_series[t], R(9, 10))
            /\ resp.soc_series[t] =
                 RSub(RAdd(SocBefore(t),
                           RDiv(RMul(resp.schedule[t].charge_kw,
                                     Get(req.constraints, "eta_ch", R(19, 20))), I(10))),
                      RDiv(resp.schedule[t].discharge_kw,
                           RMul(Get(req.constraints, "eta_dis", R(19, 20)), I(10))))

\* a heuristic schedule whose charge is limited by the headroom and takes
\* the SoC to exactly 0.9, and one whose discharge takes it to exactly 0.2
C26_Witness ==
    /\ SolveMilpReturned /\ path \in HeuristicPaths /\ HasSchedule
    /\ \E t \in 1..Len(resp.schedule) :
          \/ Positive(resp.schedule[t].charge_kw) /\ resp.soc_series[t] = R(9, 10)
          \/ Positive(resp.schedule[t].discharge_kw) /\ resp.soc_series[t] = R(2, 10)

C28_TrainerSocInBand ==
    trainer.hour >= 1 =>
        /\ RLe(RMul(trainer.battery_kwh, R(2, 10)), trainer.soc)
        /\ RLe(trainer.soc, RMul(trainer.battery_kwh, R(9, 10)))

TrainSucceeded == run.at = "done" /\ "success" \in DOMAIN run.response

====
